---- MODULE Spec2Model ----
(***************************************************************************)
(* A model of vertex.py: the funding-rate pipeline                         *)
(*   update_product_mapping -> chunk_list -> get_historical_funding_rates  *)
(*   -> process_funding_rates -> average / sort / report (main).           *)
(*                                                                         *)
(* Python values are represented as follows.                               *)
(*   dict   a sequence of records [k, v] with pairwise distinct k, in      *)
(*          insertion order (Python dicts keep insertion order);           *)
(*   list   a sequence;                                                    *)
(*   str    tickers and printed text are TLA+ strings; the strings that    *)
(*          the code parses (product-id keys, raw rates) are sequences of  *)
(*          one-character strings, so that int() and float() are modelled  *)
(*          by what they do;                                               *)
(*   int    [type |-> "int", neg, abs, chars |-> << >>]: the sign and the  *)
(*          absolute value, a natural number of any size (see Base);       *)
(*   float  an IEEE 754 double [cls, neg, m, e] (see NaN, Inf, SignedZero, *)
(*          RoundToDouble); every operation rounds as the hardware does.   *)
(* The interpreter modelled is CPython 3.11: sum() adds left to right in   *)
(* double arithmetic, int() refuses more than 4300 digits, list.sort is    *)
(* the binary insertion sort it runs on fewer than 64 items.  The strings  *)
(* parsed are ASCII (int() and float() also accept other Unicode digits    *)
(* and spaces).                                                            *)
(***************************************************************************)
EXTENDS Integers, Sequences, FiniteSets, TLC

VARIABLES
    pc,               \* position of the running script / harness
    PRODUCT_MAPPING,  \* the global dict product_id -> ticker_id
    mapObj,           \* identity of the dict object bound to PRODUCT_MAPPING
    calls,            \* number of update_product_mapping calls made so far
    resp,             \* what the assets endpoint answered to the latest call
    console,          \* the lines printed so far (fixed texts only)
    lst,              \* chunk_list: the list being chunked (main: product_ids)
    chunk_size,       \* chunk_list: the chunk size (main: max_batch_size)
    i,                \* chunk_list: the generator's loop variable
    yielded,          \* the chunks the generator has yielded so far
    payloads,         \* the request bodies posted to the archive endpoint
    clock,            \* int(time.time()) as read by each archive request
    outcomes,         \* what the archive endpoint answered to each request
    snapshots,        \* the value the latest get_historical_funding_rates returned
    all_snapshots,    \* main's accumulator
    funding_data,     \* result of process_funding_rates
    raised,           \* the exception that left the script, or "none"
    average_rates,    \* main's dict ticker -> average
    sorted_rates,     \* main's list of (ticker, average)
    report,           \* vertexrates.txt: [exists, lines, cut]
    echoed            \* the ranked lines printed at the end

vars == << pc, PRODUCT_MAPPING, mapObj, calls, resp, console, lst, chunk_size, i,
           yielded, payloads, clock, outcomes, snapshots, all_snapshots, funding_data, raised,
           average_rates, sorted_rates, report, echoed >>

(***************************************************************************)
(* Generic helpers.                                                        *)
(***************************************************************************)
Min(a, b) == IF a <= b THEN a ELSE b

Max(a, b) == IF a >= b THEN a ELSE b

RECURSIVE Concat(_)
Concat(ss) == IF ss = << >> THEN << >> ELSE Head(ss) \o Concat(Tail(ss))

\* Python's lst[a:b] for 0 <= a, with 0-based a and exclusive b.
Slice(s, a, b) == SubSeq(s, a + 1, Min(b, Len(s)))

(***************************************************************************)
(* dict                                                                    *)
(***************************************************************************)
EmptyDict == << >>

DictKeys(d) == [j \in 1..Len(d) |-> d[j].k]

KeySet(d) == {d[j].k : j \in 1..Len(d)}

DictHas(d, key) == \E j \in 1..Len(d) : d[j].k = key

DictGet(d, key, default) ==
    IF DictHas(d, key)
    THEN d[CHOOSE j \in 1..Len(d) : d[j].k = key].v
    ELSE default

\* d[key] = val: an existing key keeps its position, a new key goes last.
DictSet(d, key, val) ==
    IF DictHas(d, key)
    THEN [j \in 1..Len(d) |-> IF d[j].k = key THEN [k |-> key, v |-> val] ELSE d[j]]
    ELSE Append(d, [k |-> key, v |-> val])

(***************************************************************************)
(* update_product_mapping                                                  *)
(***************************************************************************)
\* {item["product_id"]: item["ticker_id"] for item in symbols}: a key stands
\* where it first occurs and holds the ticker of its last occurrence.
BuildMapping(symbols) ==
    LET firsts == {j \in 1..Len(symbols) :
                      \A h \in 1..(j - 1) : symbols[h].product_id # symbols[j].product_id}
        nth(m) == CHOOSE j \in firsts : Cardinality({h \in firsts : h <= j}) = m
        last(key) == CHOOSE j \in 1..Len(symbols) :
                        /\ symbols[j].product_id = key
                        /\ \A h \in (j + 1)..Len(symbols) : symbols[h].product_id # key
    IN  [m \in 1..Cardinality(firsts) |->
            [k |-> symbols[nth(m)].product_id,
             v |-> symbols[last(symbols[nth(m)].product_id)].ticker_id]]

MappingDiffersByValue(new_mapping, old_mapping) ==
    \/ KeySet(new_mapping) # KeySet(old_mapping)
    \/ \E key \in KeySet(new_mapping) : DictGet(new_mapping, key, "") # DictGet(old_mapping, key, "")

\* Line 21: only the key sets are compared.
MappingDiffers(new_mapping, old_mapping) == KeySet(new_mapping) # KeySet(old_mapping)

UpdateResultClearingOnError(mapping, obj, callNo, r) ==
    IF ~r.ok
    THEN [mapping |-> EmptyDict, obj |-> callNo, line |-> "Error fetching product symbols:"]
    ELSE IF MappingDiffers(BuildMapping(r.items), mapping)
    THEN [mapping |-> BuildMapping(r.items), obj |-> callNo, line |-> "Product mapping updated."]
    ELSE [mapping |-> mapping, obj |-> obj, line |-> "No new product mapping found."]

\* One call of update_product_mapping on the answer r of the assets endpoint:
\* r.ok = FALSE stands for any requests.exceptions.RequestException (connection
\* error, HTTP error status), r.items is response.json() otherwise.
\* Returns the new global, the identity of its dict object and the line printed.
UpdateResult(mapping, obj, callNo, r) ==
    IF ~r.ok
    THEN [mapping |-> mapping, obj |-> obj, line |-> "Error fetching product symbols:"]
    ELSE LET new_mapping == BuildMapping(r.items)
         IN  IF MappingDiffers(new_mapping, mapping)
             THEN [mapping |-> new_mapping, obj |-> callNo, line |-> "Product mapping updated."]
             ELSE [mapping |-> mapping, obj |-> obj, line |-> "No new product mapping found."]

(***************************************************************************)
(* chunk_list                                                              *)
(***************************************************************************)
ChunkAtOffByOne(list, at, size) == Slice(list, at, at + size - 1)

\* The chunk yielded when the loop variable is at: lst[at:at + size].
ChunkAt(list, at, size) == Slice(list, at, at + size)

\* list(chunk_list(list, size)), the generator run to exhaustion from `at`.
RECURSIVE ChunksFrom(_, _, _)
ChunksFrom(list, at, size) ==
    IF at >= Len(list) THEN << >>
    ELSE << ChunkAt(list, at, size) >> \o ChunksFrom(list, at + size, size)

chunk_list(list, size) == ChunksFrom(list, 0, size)

(***************************************************************************)
(* Natural numbers of any size (Python ints, and the significands the      *)
(* float operations pass through): the sequence of the base-32768 digits,  *)
(* least significant first, without leading zero digit; << >> is 0.        *)
(***************************************************************************)
Base == 32768

RECURSIVE NatTrim(_)
NatTrim(a) == IF a # << >> /\ a[Len(a)] = 0 THEN NatTrim(SubSeq(a, 1, Len(a) - 1)) ELSE a

\* The natural number m < 2^31.
RECURSIVE NatOf(_)
NatOf(m) == IF m = 0 THEN << >> ELSE << m % Base >> \o NatOf(m \div Base)

\* The digits lo..hi of a * k + c and the carry out of them.  (The operations
\* on digit sequences split the range in halves, which keeps their evaluation
\* shallow; the digits are still visited in order.)
RECURSIVE MulAddRange(_, _, _, _, _)
MulAddRange(a, k, c, lo, hi) ==
    IF lo > hi THEN [d |-> << >>, c |-> c]
    ELSE IF lo = hi THEN [d |-> << (a[lo] * k + c) % Base >>, c |-> (a[lo] * k + c) \div Base]
    ELSE LET low  == MulAddRange(a, k, c, lo, (lo + hi) \div 2)
             high == MulAddRange(a, k, low.c, (lo + hi) \div 2 + 1, hi)
         IN  [d |-> low.d \o high.d, c |-> high.c]

\* a * k + c for 0 < k < 65536 and 0 <= c < 65536.
NatMulAdd(a, k, c) ==
    LET r == MulAddRange(a, k, c, 1, Len(a)) IN r.d \o NatOf(r.c)

\* The digits hi, ..., lo of the quotient of a by k, the top one first, and the
\* remainder left, r being the remainder that comes in from the digits above.
RECURSIVE DivRemRange(_, _, _, _, _)
DivRemRange(a, k, r, lo, hi) ==
    IF lo > hi THEN [d |-> << >>, r |-> r]
    ELSE IF lo = hi THEN [d |-> << (r * Base + a[lo]) \div k >>, r |-> (r * Base + a[lo]) % k]
    ELSE LET high == DivRemRange(a, k, r, (lo + hi) \div 2 + 1, hi)
             low  == DivRemRange(a, k, high.r, lo, (lo + hi) \div 2)
         IN  [d |-> high.d \o low.d, r |-> low.r]

\* [q, r] with a = q * k + r and 0 <= r < k, for 0 < k < 65536.
NatDivRem(a, k) ==
    LET x == DivRemRange(a, k, 0, 1, Len(a))
    IN  [q |-> NatTrim([j \in 1..Len(a) |-> x.d[Len(a) + 1 - j]]), r |-> x.r]

\* a * k^n
RECURSIVE NatMulPow(_, _, _)
NatMulPow(a, k, n) ==
    IF n = 0 THEN a
    ELSE IF n = 1 THEN NatMulAdd(a, k, 0)
    ELSE LET half == NatMulPow(a, k, n \div 2)
         IN  IF half = << >> THEN << >> ELSE NatMulPow(half, k, n - n \div 2)

\* [q, r] for x = [q, r]: q divided n times by k, and r = 0 iff x.r = 0 and
\* every division was exact.
RECURSIVE NatDivPow(_, _, _)
NatDivPow(x, k, n) ==
    IF n = 0 THEN x
    ELSE IF n = 1
    THEN LET d == NatDivRem(x.q, k) IN [q |-> d.q, r |-> IF x.r # 0 \/ d.r # 0 THEN 1 ELSE 0]
    ELSE LET half == NatDivPow(x, k, n \div 2)
         IN  IF half.q = << >> THEN half ELSE NatDivPow(half, k, n - n \div 2)

\* a * 2^n and a div 2^n
NatShl(a, n) ==
    IF a = << >> THEN << >>
    ELSE [j \in 1..(n \div 15) |-> 0] \o NatMulAdd(a, 2^(n % 15), 0)

NatShr(a, n) ==
    IF n \div 15 >= Len(a) THEN << >>
    ELSE NatDivRem(SubSeq(a, n \div 15 + 1, Len(a)), 2^(n % 15)).q

\* Bit j of a (bit 0 is the least significant).
NatBit(a, j) == IF j \div 15 >= Len(a) THEN 0 ELSE (a[j \div 15 + 1] \div 2^(j % 15)) % 2

\* Some of the n low bits of a is set.
NatLowBits(a, n) ==
    \/ \E j \in 1..Min(n \div 15, Len(a)) : a[j] # 0
    \/ n \div 15 < Len(a) /\ a[n \div 15 + 1] % 2^(n % 15) # 0

RECURSIVE BitLength(_)
BitLength(m) == IF m = 0 THEN 0 ELSE 1 + BitLength(m \div 2)

NatBitLength(a) == IF a = << >> THEN 0 ELSE 15 * (Len(a) - 1) + BitLength(a[Len(a)])

\* The number of trailing zero bits of a # 0.
NatTrailingZeros(a) ==
    LET j == CHOOSE h \in 1..Len(a) : a[h] # 0 /\ \A g \in 1..(h - 1) : a[g] = 0
        b == CHOOSE r \in 0..14 : a[j] % 2^r = 0 /\ a[j] % 2^(r + 1) # 0
    IN  15 * (j - 1) + b

\* The digits lo..hi of a + b + c, or of a - b - c (a >= b), and the carry.
Digit(a, j) == IF j <= Len(a) THEN a[j] ELSE 0

RECURSIVE AddRange(_, _, _, _, _)
AddRange(a, b, c, lo, hi) ==
    IF lo > hi THEN [d |-> << >>, c |-> c]
    ELSE IF lo = hi
    THEN [d |-> << (Digit(a, lo) + Digit(b, lo) + c) % Base >>,
          c |-> (Digit(a, lo) + Digit(b, lo) + c) \div Base]
    ELSE LET low  == AddRange(a, b, c, lo, (lo + hi) \div 2)
             high == AddRange(a, b, low.c, (lo + hi) \div 2 + 1, hi)
         IN  [d |-> low.d \o high.d, c |-> high.c]

NatAdd(a, b) ==
    LET r == AddRange(a, b, 0, 1, Max(Len(a), Len(b))) IN r.d \o NatOf(r.c)

RECURSIVE SubRange(_, _, _, _, _)
SubRange(a, b, c, lo, hi) ==
    IF lo > hi THEN [d |-> << >>, c |-> c]
    ELSE IF lo = hi
    THEN [d |-> << (Digit(a, lo) - Digit(b, lo) - c + Base) % Base >>,
          c |-> IF Digit(a, lo) - Digit(b, lo) - c < 0 THEN 1 ELSE 0]
    ELSE LET low  == SubRange(a, b, c, lo, (lo + hi) \div 2)
             high == SubRange(a, b, low.c, (lo + hi) \div 2 + 1, hi)
         IN  [d |-> low.d \o high.d, c |-> high.c]

\* a - b for a >= b
NatSub(a, b) == NatTrim(SubRange(a, b, 0, 1, Len(a)).d)

NatLess(a, b) ==
    \/ Len(a) < Len(b)
    \/ Len(a) = Len(b) /\ \E j \in 1..Len(a) : a[j] < b[j] /\ \A h \in (j + 1)..Len(a) : a[h] = b[h]

(***************************************************************************)
(* str                                                                     *)
(***************************************************************************)
DigitChars == {"0", "1", "2", "3", "4", "5", "6", "7", "8", "9"}

DigitVal(c) ==
    CASE c = "0" -> 0 [] c = "1" -> 1 [] c = "2" -> 2 [] c = "3" -> 3 [] c = "4" -> 4
      [] c = "5" -> 5 [] c = "6" -> 6 [] c = "7" -> 7 [] c = "8" -> 8 [] c = "9" -> 9

\* The str made of the characters cs.
RECURSIVE Str(_)
Str(cs) ==
    IF cs = << >> THEN ""
    ELSE IF Len(cs) = 1 THEN cs[1]
    ELSE Str(SubSeq(cs, 1, Len(cs) \div 2)) \o Str(SubSeq(cs, Len(cs) \div 2 + 1, Len(cs)))

\* The characters int() and float() strip from both ends: space, tab, line
\* feed, carriage return, form feed and the vertical tab (the byte 0x0B,
\* written as itself in the last string).
WhiteSpace == {" ", "\t", "\n", "\r", "\f", ""}

Strip(cs) ==
    LET keep == {j \in 1..Len(cs) : cs[j] \notin WhiteSpace}
    IN  IF keep = {} THEN << >>
        ELSE SubSeq(cs, CHOOSE j \in keep : \A h \in keep : j <= h,
                        CHOOSE j \in keep : \A h \in keep : h <= j)

HasSign(cs) == Len(cs) > 0 /\ cs[1] \in {"+", "-"}

Unsigned(cs) == IF HasSign(cs) THEN Tail(cs) ELSE cs

\* Digits, with single underscores allowed between two digits.
DigitGroup(cs) ==
    /\ Len(cs) > 0
    /\ \A j \in 1..Len(cs) : cs[j] \in DigitChars \cup {"_"}
    /\ cs[1] # "_" /\ cs[Len(cs)] # "_"
    /\ \A j \in 1..(Len(cs) - 1) : ~(cs[j] = "_" /\ cs[j + 1] = "_")

DigitsOnly(cs) == SelectSeq(cs, LAMBDA c : c \in DigitChars)

\* cs without its leading "0" characters.
NoLeadingZeros(cs) ==
    LET nz == {j \in 1..Len(cs) : cs[j] # "0"}
    IN  IF nz = {} THEN << >> ELSE SubSeq(cs, CHOOSE j \in nz : \A h \in nz : j <= h, Len(cs))

\* acc * 10^(hi - lo + 1) + the value of the digits ds[lo..hi]
RECURSIVE DigitsRange(_, _, _, _)
DigitsRange(acc, ds, lo, hi) ==
    IF lo > hi THEN acc
    ELSE IF lo = hi THEN NatMulAdd(acc, 10, DigitVal(ds[lo]))
    ELSE LET left == DigitsRange(acc, ds, lo, (lo + hi) \div 2)
         IN  IF left = << >> THEN DigitsRange(<< >>, ds, (lo + hi) \div 2 + 1, hi)
             ELSE DigitsRange(left, ds, (lo + hi) \div 2 + 1, hi)

\* The value of a string of digits.
DigitsNat(ds) == DigitsRange(<< >>, ds, 1, Len(ds))

\* The four decimal digits of m < 10000.
Digits4(m) ==
    << ToString(m \div 1000), ToString((m \div 100) % 10), ToString((m \div 10) % 10),
       ToString(m % 10) >>

\* n times: the four low decimal digits of st.q move to the front of st.text
\* (the first digits of the number lose their leading zeros).
RECURSIVE DecimalSteps(_, _)
DecimalSteps(st, n) ==
    IF n = 0 \/ st.q = << >> THEN st
    ELSE IF n = 1
    THEN LET d == NatDivRem(st.q, 10000)
         IN  [q |-> d.q, text |-> (IF d.q = << >> THEN NoLeadingZeros(Digits4(d.r)) ELSE Digits4(d.r))
                                  \o st.text]
    ELSE DecimalSteps(DecimalSteps(st, n \div 2), n - n \div 2)

\* The characters of str(a) for a natural number a.
NatDecimal(a) ==
    IF a = << >> THEN << "0" >>
    ELSE DecimalSteps([q |-> a, text |-> << >>], NatBitLength(a) \div 13 + 1).text

(***************************************************************************)
(* int and str objects.  A Python int carries its sign and its absolute    *)
(* value (0 has neg = FALSE); a str that the code parses or uses as a key  *)
(* carries its characters.  The two have the same fields, so that a dict   *)
(* may hold keys of both types; an int never equals a str.                 *)
(***************************************************************************)
\* The int of value m, |m| < 2^31.
PyInt(m) == [type |-> "int", neg |-> m < 0, abs |-> NatOf(IF m < 0 THEN -m ELSE m), chars |-> << >>]

\* The str of characters cs.
PyStr(cs) == [type |-> "str", neg |-> FALSE, abs |-> << >>, chars |-> cs]

\* The characters of str(n) for an int n.
IntChars(n) == (IF n.neg THEN << "-" >> ELSE << >>) \o NatDecimal(n.abs)

\* int(s): it succeeds on an optionally signed group of digits between
\* white space, of at most sys.get_int_max_str_digits() digits.
MaxStrDigits == 4300

IntParses(cs) ==
    /\ DigitGroup(Unsigned(Strip(cs)))
    /\ Len(DigitsOnly(Strip(cs))) <= MaxStrDigits

IntOf(cs) ==
    LET a == DigitsNat(NoLeadingZeros(DigitsOnly(Strip(cs))))
    IN  [type |-> "int", neg |-> a # << >> /\ Strip(cs)[1] = "-", abs |-> a, chars |-> << >>]

(***************************************************************************)
(* float: an IEEE 754 binary64 value, the record [cls, neg, m, e]:         *)
(*   cls = "nan"     a NaN (neg = FALSE, m = << >>, e = 0);                *)
(*   cls = "inf"     the infinity of sign neg (m = << >>, e = 0);          *)
(*   cls = "finite"  (-1)^neg * m * 2^e, with m = << >>, e = 0 for the     *)
(*                   zero of sign neg and otherwise m odd, m < 2^53,       *)
(*                   -1074 <= e and m * 2^e < 2^1024.                      *)
(* Equal values other than the two zeros have equal representations.       *)
(***************************************************************************)
NaN == [cls |-> "nan", neg |-> FALSE, m |-> << >>, e |-> 0]

Inf(neg) == [cls |-> "inf", neg |-> neg, m |-> << >>, e |-> 0]

SignedZero(neg) == [cls |-> "finite", neg |-> neg, m |-> << >>, e |-> 0]

Zero == SignedZero(FALSE)

\* The double of sign neg nearest to q * 2^x, q >= 0, ties to the even
\* significand; or, when inexact is set, nearest to a value strictly between
\* q * 2^x and (q + 1) * 2^x (q must then have more than 54 bits).
RoundToDouble(neg, q, x, inexact) ==
    IF q = << >> THEN SignedZero(neg)
    ELSE LET E  == Max(NatBitLength(q) + x - 53, -1074)
             s  == E - x
             up == /\ s > 0
                   /\ NatBit(q, s - 1) = 1
                   /\ (inexact \/ NatLowBits(q, s - 1) \/ NatBit(q, s) = 1)
             M  == IF s <= 0 THEN q
                   ELSE IF up THEN NatAdd(NatShr(q, s), << 1 >>) ELSE NatShr(q, s)
             X  == IF s <= 0 THEN x ELSE E
         IN  IF M = << >> THEN SignedZero(neg)
             ELSE IF NatBitLength(M) + X > 1024 THEN Inf(neg)
             ELSE [cls |-> "finite", neg |-> neg,
                   m |-> NatShr(M, NatTrailingZeros(M)), e |-> X + NatTrailingZeros(M)]

\* float(n) for an int n; float(n) raises OverflowError when IntTooLarge(n).
FloatOfInt(n) == RoundToDouble(n.neg, n.abs, 0, FALSE)

IntTooLarge(n) == FloatOfInt(n).cls = "inf"

\* x / (d^n * 2^k) for a float x and 0 < d < 65536.
FloatDiv(x, d, n, k) ==
    IF x.cls # "finite" \/ x.m = << >> THEN x
    ELSE LET shift == 64 + 16 * n
             qr == NatDivPow([q |-> NatShl(x.m, shift), r |-> 0], d, n)
         IN  RoundToDouble(x.neg, qr.q, x.e - shift - k, qr.r # 0)

\* x * k for a float x and 0 < k < 65536.
FloatMul(x, k) ==
    IF x.cls # "finite" \/ x.m = << >> THEN x
    ELSE RoundToDouble(x.neg, NatMulAdd(x.m, k, 0), x.e, FALSE)

\* x + y
Add(x, y) ==
    IF x.cls = "nan" \/ y.cls = "nan" THEN NaN
    ELSE IF x.cls = "inf" THEN (IF y.cls = "inf" /\ y.neg # x.neg THEN NaN ELSE x)
    ELSE IF y.cls = "inf" THEN y
    ELSE IF x.m = << >> /\ y.m = << >> THEN SignedZero(x.neg /\ y.neg)
    ELSE IF x.m = << >> THEN y
    ELSE IF y.m = << >> THEN x
    ELSE LET e == Min(x.e, y.e)
             a == NatShl(x.m, x.e - e)
             b == NatShl(y.m, y.e - e)
         IN  IF x.neg = y.neg THEN RoundToDouble(x.neg, NatAdd(a, b), e, FALSE)
             ELSE IF a = b THEN Zero
             ELSE IF NatLess(a, b) THEN RoundToDouble(y.neg, NatSub(b, a), e, FALSE)
             ELSE RoundToDouble(x.neg, NatSub(a, b), e, FALSE)

\* |x| < |y| for finite x and y
MagnitudeLess(x, y) ==
    IF y.m = << >> THEN FALSE
    ELSE IF x.m = << >> THEN TRUE
    ELSE IF NatBitLength(x.m) + x.e # NatBitLength(y.m) + y.e
    THEN NatBitLength(x.m) + x.e < NatBitLength(y.m) + y.e
    ELSE NatLess(NatShl(x.m, x.e - Min(x.e, y.e)), NatShl(y.m, y.e - Min(x.e, y.e)))

\* x < y
Less(x, y) ==
    IF x.cls = "nan" \/ y.cls = "nan" THEN FALSE
    ELSE IF x.cls = "inf" THEN x.neg /\ ~(y.cls = "inf" /\ y.neg)
    ELSE IF y.cls = "inf" THEN ~y.neg
    ELSE IF x.m = << >> /\ y.m = << >> THEN FALSE
    ELSE IF x.neg # y.neg THEN x.neg
    ELSE IF x.neg THEN MagnitudeLess(y, x)
    ELSE MagnitudeLess(x, y)

\* sum(values): Python starts from the int 0 and adds left to right, in
\* double arithmetic from the first float on.
RECURSIVE SumRange(_, _, _, _)
SumRange(acc, values, lo, hi) ==
    IF lo > hi THEN acc
    ELSE IF lo = hi THEN Add(acc, values[lo])
    ELSE LET left == SumRange(acc, values, lo, (lo + hi) \div 2)
         IN  IF left.cls = "nan" THEN NaN
             ELSE SumRange(left, values, (lo + hi) \div 2 + 1, hi)

Sum(values) == SumRange(Zero, values, 1, Len(values))

(***************************************************************************)
(* float(str)                                                              *)
(***************************************************************************)
Lower(c) ==
    CASE c = "A" -> "a" [] c = "E" -> "e" [] c = "F" -> "f" [] c = "I" -> "i"
      [] c = "N" -> "n" [] c = "T" -> "t" [] c = "Y" -> "y" [] OTHER -> c

Lowered(cs) == [j \in 1..Len(cs) |-> Lower(cs[j])]

\* The position of the first character of cs that is in set, or 0.
FirstOf(cs, set) ==
    IF \E j \in 1..Len(cs) : cs[j] \in set
    THEN CHOOSE j \in 1..Len(cs) : cs[j] \in set /\ \A h \in 1..(j - 1) : cs[h] \notin set
    ELSE 0

\* The parts of an unsigned decimal literal: digits "." digits "e" sign digits.
Mantissa(u) == IF FirstOf(u, {"e", "E"}) = 0 THEN u ELSE SubSeq(u, 1, FirstOf(u, {"e", "E"}) - 1)

Exponent(u) == IF FirstOf(u, {"e", "E"}) = 0 THEN << >> ELSE SubSeq(u, FirstOf(u, {"e", "E"}) + 1, Len(u))

IntPart(u) ==
    IF FirstOf(Mantissa(u), {"."}) = 0 THEN Mantissa(u)
    ELSE SubSeq(Mantissa(u), 1, FirstOf(Mantissa(u), {"."}) - 1)

FracPart(u) ==
    IF FirstOf(Mantissa(u), {"."}) = 0 THEN << >>
    ELSE SubSeq(Mantissa(u), FirstOf(Mantissa(u), {"."}) + 1, Len(Mantissa(u)))

IsDecimal(u) ==
    /\ IntPart(u) = << >> \/ DigitGroup(IntPart(u))
    /\ FracPart(u) = << >> \/ DigitGroup(FracPart(u))
    /\ Len(IntPart(u)) + Len(FracPart(u)) > 0
    /\ FirstOf(u, {"e", "E"}) # 0 => DigitGroup(Unsigned(Exponent(u)))

IsSpecial(u) ==
    Lowered(u) \in {<<"i", "n", "f">>, <<"i", "n", "f", "i", "n", "i", "t", "y">>, <<"n", "a", "n">>}

\* float(s) succeeds
FloatParses(cs) == IsSpecial(Unsigned(Strip(cs))) \/ IsDecimal(Unsigned(Strip(cs)))

\* The value of a string of digits, or ExponentCap when it is larger.
ExponentCap == 100000000

CappedVal(ds) ==
    LET sig == NoLeadingZeros(ds)
    IN  IF Len(sig) > 8 THEN ExponentCap
        ELSE IF sig = << >> THEN 0
        ELSE LET a == DigitsNat(sig)
             IN  a[1] + (IF Len(a) > 1 THEN a[2] * Base ELSE 0)

\* The double nearest to digits * 10^x, of sign neg.
DecimalToDouble(neg, digits, x) ==
    LET sig == NoLeadingZeros(digits)
    IN  IF sig = << >> \/ Len(sig) + x < -330 THEN SignedZero(neg)
        ELSE IF Len(sig) + x > 310 THEN Inf(neg)
        ELSE IF x >= 0
        THEN RoundToDouble(neg, NatMulPow(NatMulPow(DigitsNat(sig), 10000, x \div 4), 10, x % 4),
                           0, FALSE)
        ELSE LET shift == 64 + 4 * (-x)
                 qr == NatDivPow(NatDivPow([q |-> NatShl(DigitsNat(sig), shift), r |-> 0],
                                           10000, (-x) \div 4),
                                 10, (-x) % 4)
             IN  RoundToDouble(neg, qr.q, -shift, qr.r # 0)

\* float(s) for a string on which it succeeds
FloatOfStr(cs) ==
    LET s   == Strip(cs)
        u   == Unsigned(s)
        neg == s[1] = "-"
        ex  == IF Exponent(u) = << >> THEN 0
               ELSE IF Exponent(u)[1] = "-" THEN -CappedVal(DigitsOnly(Exponent(u)))
               ELSE CappedVal(DigitsOnly(Exponent(u)))
    IN  IF IsSpecial(u) THEN (IF Lowered(u) = <<"n", "a", "n">> THEN NaN ELSE Inf(neg))
        ELSE DecimalToDouble(neg, DigitsOnly(IntPart(u)) \o DigitsOnly(FracPart(u)),
                             ex - Len(DigitsOnly(FracPart(u))))

(***************************************************************************)
(* f"{x:.6f}"                                                              *)
(***************************************************************************)
\* |x| * 10^6 rounded to the nearest integer, ties to even, for a finite x.
Micro(x) ==
    LET n == NatMulAdd(NatMulAdd(x.m, 1000, 0), 1000, 0)
        s == -x.e
    IN  IF x.m = << >> THEN << >>
        ELSE IF s <= 0 THEN NatShl(n, -s)
        ELSE IF NatBit(n, s - 1) = 1 /\ (NatLowBits(n, s - 1) \/ NatBit(n, s) = 1)
        THEN NatAdd(NatShr(n, s), << 1 >>)
        ELSE NatShr(n, s)

Pad3(m) == (IF m < 10 THEN "00" ELSE IF m < 100 THEN "0" ELSE "") \o ToString(m)

Fmt6(x) ==
    IF x.cls = "nan" THEN "nan"
    ELSE IF x.cls = "inf" THEN (IF x.neg THEN "-inf" ELSE "inf")
    ELSE LET lo == NatDivRem(Micro(x), 1000)
             hi == NatDivRem(lo.q, 1000)
         IN  (IF x.neg THEN "-" ELSE "") \o Str(NatDecimal(hi.q)) \o "."
                 \o Pad3(hi.r) \o Pad3(lo.r)

(***************************************************************************)
(* get_historical_funding_rates                                            *)
(***************************************************************************)
RoundedTimeByGranularity(current_time, granularity) ==
    current_time - (current_time % granularity) + 5

\* Line 48: the hour is hard-coded, the granularity argument is not used.
RoundedTime(current_time, granularity) == current_time - (current_time % 3600) + 5

\* The JSON body of the POST.
Payload(product_ids, cnt, granularity, current_time) ==
    [count |-> cnt, granularity |-> granularity,
     max_time |-> RoundedTime(current_time, granularity), product_ids |-> product_ids]

\* The value returned for the answer o of the archive endpoint: o.ok = FALSE
\* stands for any RequestException; otherwise o.has tells whether the JSON
\* object has a "snapshots" key and o.snapshots is its value.
FetchReturn(o) == IF o.ok /\ o.has THEN o.snapshots ELSE << >>

FetchLine(o) == IF o.ok THEN << >> ELSE << "Error fetching historical funding rates" >>

(***************************************************************************)
(* process_funding_rates                                                   *)
(* A snapshot is [timestamp, funding_rates], funding_rates a dict whose    *)
(* keys are strings (character sequences) and whose values are what        *)
(* response.json() makes of JSON values, [type, chars, num]:               *)
(*   "string"  a str of characters chars;                                  *)
(*   "int"     a number written without fraction or exponent: the int num; *)
(*   "real"    any other number, the float that float() reads from its     *)
(*             text chars (json also reads NaN, Infinity and -Infinity);   *)
(*   "bool"    true or false, num being the int 1 or 0 it counts as;       *)
(*   "null", "array", "object"  None, a list, a dict.                      *)
(***************************************************************************)
JString(cs) == [type |-> "string", chars |-> cs, num |-> PyInt(0)]

JInt(n) == [type |-> "int", chars |-> << >>, num |-> n]

JNumber(m) == JInt(PyInt(m))

JReal(cs) == [type |-> "real", chars |-> cs, num |-> PyInt(0)]

JBool(b) == [type |-> "bool", chars |-> << >>, num |-> PyInt(IF b THEN 1 ELSE 0)]

JNull == [type |-> "null", chars |-> << >>, num |-> PyInt(0)]

JArray == [type |-> "array", chars |-> << >>, num |-> PyInt(0)]

JObject == [type |-> "object", chars |-> << >>, num |-> PyInt(0)]

\* Line 90: the exception float(v) raises, or "none".
FloatError(v) ==
    CASE v.type \in {"null", "array", "object"} -> "TypeError"
      [] v.type = "string" /\ ~FloatParses(v.chars) -> "ValueError"
      [] v.type = "int" /\ IntTooLarge(v.num) -> "OverflowError"
      [] OTHER -> "none"

\* Line 90: float(v) when it raises nothing.
FloatOf(v) == IF v.type \in {"int", "bool"} THEN FloatOfInt(v.num) ELSE FloatOfStr(v.chars)

\* Lines 84-87: the int read from the key, or the key itself when int() raises
\* ValueError.
ProductId(key) == IF IntParses(key) THEN IntOf(key) ELSE PyStr(key)

\* Line 88: the default of the lookup, f"Unknown({prod_id})".
UnknownLabel(key) ==
    "Unknown("
    \o (IF ProductId(key).type = "int" THEN Str(IntChars(ProductId(key))) ELSE Str(key))
    \o ")"

\* Line 88: the ticker under which the key's entry is filed.
TickerOf(mapping, key) == DictGet(mapping, ProductId(key), UnknownLabel(key))

\* Line 94: ((raw_value / 1e18) / 24) * 100, each operation rounded to a
\* double; 1e18 = 15625^3 * 2^18.
HourlyPercent(raw_value) == FloatMul(FloatDiv(FloatDiv(raw_value, 15625, 3, 18), 24, 1, 0), 100)

\* Lines 89-94 for a value on which float() raises nothing but ValueError.
FundingRate(v) == HourlyPercent(IF FloatError(v) = "ValueError" THEN Zero ELSE FloatOf(v))

\* Lines 95-100
FileEntry(data, ticker, entry) == DictSet(data, ticker, Append(DictGet(data, ticker, << >>), entry))

\* The (timestamp, key, value) triples in the order the two loops visit them.
PairsOf(snapshot) ==
    [j \in 1..Len(snapshot.funding_rates) |->
        [timestamp |-> snapshot.timestamp,
         key |-> snapshot.funding_rates[j].k,
         rate |-> snapshot.funding_rates[j].v]]

RECURSIVE PairsRange(_, _, _)
PairsRange(snaps, lo, hi) ==
    IF lo > hi THEN << >>
    ELSE IF lo = hi THEN PairsOf(snaps[lo])
    ELSE PairsRange(snaps, lo, (lo + hi) \div 2) \o PairsRange(snaps, (lo + hi) \div 2 + 1, hi)

Pairs(snaps) == PairsRange(snaps, 1, Len(snaps))

\* Lines 84-100 for one pair, on the dict built so far.
ProcessPair(data, p, mapping) ==
    FileEntry(data, TickerOf(mapping, p.key),
              [timestamp |-> p.timestamp, funding_rate |-> FundingRate(p.rate)])

\* One turn of the inner loop from the state st = [raised, data, visited]: an
\* exception of float() that is not caught ends the call, and the dict built
\* so far is lost with it.
ProcessStep(st, p, mapping) ==
    IF st.raised # "none" THEN st
    ELSE IF FloatError(p.rate) \notin {"none", "ValueError"}
    THEN [raised |-> FloatError(p.rate), data |-> EmptyDict, visited |-> st.visited]
    ELSE [raised |-> "none", data |-> ProcessPair(st.data, p, mapping),
          visited |-> st.visited + 1]

\* The loops of lines 80-100 over pairs[lo..hi], in order, from the state st
\* (the range is split in halves only to keep the evaluation shallow); nothing
\* is visited after an exception.
RECURSIVE ProcessRange(_, _, _, _, _)
ProcessRange(st, pairs, lo, hi, mapping) ==
    IF lo > hi THEN st
    ELSE IF lo = hi THEN ProcessStep(st, pairs[lo], mapping)
    ELSE LET half == ProcessRange(st, pairs, lo, (lo + hi) \div 2, mapping)
         IN  IF half.raised # "none" THEN half
             ELSE ProcessRange(half, pairs, (lo + hi) \div 2 + 1, hi, mapping)

process_funding_rates(snaps, mapping) ==
    ProcessRange([raised |-> "none", data |-> EmptyDict, visited |-> 0],
                 Pairs(snaps), 1, Len(Pairs(snaps)), mapping)

(***************************************************************************)
(* main, lines 140-158                                                     *)
(***************************************************************************)
Rates(entries) == [j \in 1..Len(entries) |-> entries[j].funding_rate]

AverageByCount(entries) == FloatDiv(Sum(Rates(entries)), Len(entries), 1, 0)

\* Lines 142-143: sum(rates) / 3
AverageRate(entries) == FloatDiv(Sum(Rates(entries)), 3, 1, 0)

\* Lines 140-144
AverageRates(data) == [j \in 1..Len(data) |-> [k |-> data[j].k, v |-> AverageRate(data[j].v)]]

(***************************************************************************)
(* Line 147: sorted(items, key=lambda x: x[1], reverse=True), by CPython's *)
(* list.sort                                                                *)
(* for fewer than 64 items: the list is reversed, the run found at its     *)
(* start is extended to the whole list by binary insertion, and the result *)
(* is reversed.  The only comparison made is key < key.                    *)
(***************************************************************************)
Reversed(a) == [j \in 1..Len(a) |-> a[Len(a) + 1 - j]]

\* count_run: the length of the run at the start of a (Len(a) >= 2), which is
\* strictly descending when a[2] < a[1] and non-descending otherwise.
CountRun(a) ==
    LET desc == Less(a[2].v, a[1].v)
        ends == {j \in 2..Len(a) : j = Len(a) \/ Less(a[j + 1].v, a[j].v) # desc}
    IN  [n |-> CHOOSE j \in ends : \A h \in ends : j <= h, descending |-> desc]

\* binarysort: where the pivot goes among a[l + 1 .. r]
RECURSIVE Bisect(_, _, _, _)
Bisect(a, pivot, l, r) ==
    IF l >= r THEN l
    ELSE IF Less(pivot.v, a[(l + r) \div 2 + 1].v) THEN Bisect(a, pivot, l, (l + r) \div 2)
    ELSE Bisect(a, pivot, (l + r) \div 2 + 1, r)

\* binarysort: the items a[lo], ..., a[hi] are inserted one after the other,
\* each among the items before it.
RECURSIVE BinarySort(_, _, _)
BinarySort(a, lo, hi) ==
    IF lo > hi \/ Len(a) < 2 THEN a
    ELSE IF lo = hi
    THEN LET l == Bisect(a, a[lo], 0, lo - 1)
         IN  SubSeq(a, 1, l) \o << a[lo] >> \o SubSeq(a, l + 1, lo - 1) \o SubSeq(a, lo + 1, Len(a))
    ELSE BinarySort(BinarySort(a, lo, (lo + hi) \div 2), (lo + hi) \div 2 + 1, hi)

ListSort(a) ==
    IF Len(a) < 2 THEN a
    ELSE LET run == CountRun(a)
         IN  BinarySort(IF run.descending
                        THEN Reversed(SubSeq(a, 1, run.n)) \o SubSeq(a, run.n + 1, Len(a))
                        ELSE a,
                        run.n + 1, Len(a))

SortedDesc(items) == Reversed(ListSort(Reversed(items)))

\* Lines 151-154: the text written to vertexrates.txt, line by line.
ReportLines(ranked) ==
    << "Ticker\tAverage Funding Rate (%)\n", "---------------------------------\n" >>
    \o [j \in 1..Len(ranked) |-> ranked[j].k \o "\t" \o Fmt6(ranked[j].v) \o "\n"]

\* Lines 150-154 when an OSError leaves the with block: open() raised and the
\* file is as it was before, or open() created or truncated the file and a
\* write, a flush or the close raised, and the file holds what had reached it
\* by then: the first lines of the text, none of them, some or all, with or
\* without the beginning of the next one.
FailedReports(before, lines) ==
    {before}
    \cup {[exists |-> TRUE, lines |-> SubSeq(lines, 1, written), cut |-> FALSE] :
             written \in 0..Len(lines)}
    \cup {[exists |-> TRUE, lines |-> SubSeq(lines, 1, written), cut |-> TRUE] :
             written \in 0..(Len(lines) - 1)}

\* Lines 157-158
EchoLines(ranked) == [j \in 1..Len(ranked) |-> ranked[j].k \o ": " \o Fmt6(ranked[j].v) \o "%"]

(***************************************************************************)
(* Bounds and inputs.                                                      *)
(***************************************************************************)
MaxLen == 4      \* chunk_list alone: lists of up to MaxLen ids
MaxChunk == 3    \* chunk_list alone: chunk sizes 1..MaxChunk
MaxCalls == 2    \* update_product_mapping alone: calls in a row
MaxItems == 2    \* update_product_mapping alone: records in a response
MaxBatches == 3  \* main: the largest product list needs MaxBatches batches
MaxPairs == 3    \* process_funding_rates alone: (key, rate) pairs in the input

\* Line 112
count == 72

\* Line 113
max_batch_size == 2000 \div count

Zeros(k) == [j \in 1..k |-> "0"]

Snap(ts, rates) == [timestamp |-> ts, funding_rates |-> rates]

\* Raw rates: 3e18 (hourly 12.5 %), the rate of the end-to-end scenario
\* 1.728e18 (7.2 %), "nan", which float() reads as a NaN, and a string float()
\* refuses.
Raw3 == <<"3">> \o Zeros(18)

Raw1728 == <<"1", "7", "2", "8">> \o Zeros(15)

NotANumber == <<"n", "a", "n">>

Malformed == <<"x">>

(* update_product_mapping alone *)
AssetRecords == [product_id : {PyInt(1), PyInt(2)}, ticker_id : {"BTC-PERP", "ETH-PERP"}]

AssetAnswers ==
    {[ok |-> FALSE, items |-> << >>]}
    \cup {[ok |-> TRUE, items |-> it] : it \in UNION {[1..m -> AssetRecords] : m \in 0..MaxItems}}

(* main *)
AssetsUpTo(m) == [j \in 1..m |-> [product_id |-> PyInt(j), ticker_id |-> "T" \o ToString(j)]]

MainAssetAnswers ==
    {[ok |-> FALSE, items |-> << >>]}
    \cup {[ok |-> TRUE, items |-> AssetsUpTo(m)] :
             m \in {0, 1, max_batch_size, max_batch_size + 1, (MaxBatches - 1) * max_batch_size + 1}}

MainTimes == {7199, 7200}

\* What the archive may return for a batch: rates of the first id of the
\* batch, and of an id that is not in the mapping.
BatchSnapshots(batch) ==
    LET first == [k |-> IntChars(batch[1]), v |-> JString(Raw3)]
        other == [k |-> IntChars(batch[Len(batch)]) \o Zeros(3), v |-> JString(Malformed)]
    IN  { << >>,
          << Snap(3600, << first >>) >>,
          << Snap(3600, << first >>), Snap(7200, << other, first >>) >>,
          << Snap(3600, << [k |-> first.k, v |-> JNull] >>) >> }

ArchiveAnswers(batch) ==
    {[ok |-> FALSE, has |-> FALSE, snapshots |-> << >>],
     [ok |-> TRUE, has |-> FALSE, snapshots |-> << >>]}
    \cup {[ok |-> TRUE, has |-> TRUE, snapshots |-> ss] : ss \in BatchSnapshots(batch)}

\* vertexrates.txt: whether it exists, its complete lines, and whether the
\* beginning of a further line follows them.
NoFile == [exists |-> FALSE, lines |-> << >>, cut |-> FALSE]

StaleFile == [exists |-> TRUE, lines |-> << "stale\n" >>, cut |-> FALSE]

(* get_historical_funding_rates alone *)
Times == {0, 59, 61, 3599, 3600, 3661, 7260, 86399, 90061}

Granularities == {1, 60, 3600, 7200, 86400}

(* process_funding_rates alone *)
ProcKeys == {<<"1">>, <<" ", "1">>, <<"2">>, <<"x">>}

ProcRates == {JString(Raw3), JString(NotANumber), JString(Malformed), JNull}

\* Rates of the other JSON types: the numbers 3, 1.5 and 10^400, true, an array
\* and an object.
OtherRates ==
    {JNumber(3), JReal(<<"1", ".", "5">>), JInt(IntOf(<<"1">> \o Zeros(400))), JBool(TRUE),
     JArray, JObject}

ProcMappings ==
    { EmptyDict,
      << [k |-> PyInt(1), v |-> "BTC-PERP"] >>,
      << [k |-> PyInt(2), v |-> "ETH-PERP"], [k |-> PyInt(1), v |-> "BTC-PERP"],
         [k |-> PyStr(<<"x">>), v |-> "X-PERP"] >> }

\* A snapshot list, flattened: each pair says whether it opens a new snapshot.
FlatPairs == [key : ProcKeys, rate : ProcRates, new : BOOLEAN]

\* The keys of one snapshot are distinct, and the first pair opens a snapshot.
WellFormedFlat(f) ==
    /\ Len(f) > 0 => f[1].new
    /\ \A a, b \in 1..Len(f) :
          (a < b /\ f[a].key = f[b].key) => \E c \in (a + 1)..b : f[c].new

RECURSIVE Grouped(_)
Grouped(f) ==
    IF f = << >> THEN << >>
    ELSE LET init == Grouped(SubSeq(f, 1, Len(f) - 1))
             last == f[Len(f)]
             pair == [k |-> last.key, v |-> last.rate]
         IN  IF last.new THEN Append(init, Snap(Len(init) + 1, << pair >>))
             ELSE [init EXCEPT ![Len(init)].funding_rates = Append(@, pair)]

\* mapping = {1: "BTC-PERP"}, 72 hourly snapshots of product 1 at 1.728e18.
EndToEnd == [j \in 1..count |-> Snap(j, << [k |-> <<"1">>, v |-> JString(Raw1728)] >>)]

ProcSnapshots ==
    {Grouped(f) : f \in {g \in UNION {[1..m -> FlatPairs] : m \in 1..MaxPairs} : WellFormedFlat(g)}}
    \cup {<< Snap(1, << [k |-> <<"1">>, v |-> v] >>) >> : v \in OtherRates}
    \cup {<< Snap(1, << >>) >>, EndToEnd}

(***************************************************************************)
(* The state after the module is loaded and before main runs.              *)
(***************************************************************************)
NoAnswer == [ok |-> FALSE, items |-> << >>]

Loaded ==
    /\ mapObj = 0
    /\ calls = 0
    /\ resp = NoAnswer
    /\ console = << >>
    /\ i = 0
    /\ yielded = << >>
    /\ payloads = << >>
    /\ clock = << >>
    /\ outcomes = << >>
    /\ snapshots = << >>
    /\ funding_data = EmptyDict
    /\ raised = "none"
    /\ average_rates = EmptyDict
    /\ sorted_rates = << >>
    /\ echoed = << >>

(***************************************************************************)
(* Actions.                                                                *)
(***************************************************************************)
\* update_product_mapping(), the assets endpoint answering r.
UpdateProductMapping(r) ==
    LET u == UpdateResult(PRODUCT_MAPPING, mapObj, calls + 1, r)
    IN  /\ PRODUCT_MAPPING' = u.mapping
        /\ mapObj' = u.obj
        /\ calls' = calls + 1
        /\ resp' = r
        /\ console' = Append(console, u.line)

\* next(chunk_list(lst, chunk_size)) while the range is not exhausted.
YieldChunk ==
    /\ pc = "chunk"
    /\ i < Len(lst)
    /\ yielded' = Append(yielded, ChunkAt(lst, i, chunk_size))
    /\ i' = i + chunk_size
    /\ UNCHANGED << pc, PRODUCT_MAPPING, mapObj, calls, resp, console, lst, chunk_size,
                    payloads, clock, outcomes, snapshots, all_snapshots, funding_data,
                    raised, average_rates, sorted_rates, report, echoed >>

\* The range is exhausted: the generator returns.
ChunkStop ==
    /\ pc = "chunk"
    /\ i >= Len(lst)
    /\ pc' = "exhausted"
    /\ UNCHANGED << PRODUCT_MAPPING, mapObj, calls, resp, console, lst, chunk_size, i,
                    yielded, payloads, clock, outcomes, snapshots, all_snapshots,
                    funding_data, raised, average_rates, sorted_rates, report, echoed >>

\* get_historical_funding_rates(product_ids, cnt, granularity) at time t, the
\* archive endpoint answering o.
GetHistoricalFundingRates(product_ids, cnt, granularity, t, o) ==
    /\ payloads' = Append(payloads, Payload(product_ids, cnt, granularity, t))
    /\ clock' = Append(clock, t)
    /\ outcomes' = Append(outcomes, o)
    /\ snapshots' = FetchReturn(o)

\* A call of update_product_mapping outside main.
CallUpdate ==
    /\ pc = "update_product_mapping"
    /\ calls < MaxCalls
    /\ \E r \in AssetAnswers : UpdateProductMapping(r)
    /\ UNCHANGED << pc, lst, chunk_size, i, yielded, payloads, clock, outcomes, snapshots,
                    all_snapshots, funding_data, raised, average_rates, sorted_rates,
                    report, echoed >>

\* A call of get_historical_funding_rates outside main; only the latest call
\* is kept.
CallFetch ==
    /\ pc = "get_historical_funding_rates"
    /\ \E ids \in {<< PyInt(1) >>, << PyInt(1), PyInt(2) >>}, cnt \in {1, count},
          g \in Granularities, t \in Times :
       \E o \in ArchiveAnswers(ids) :
          /\ payloads' = << Payload(ids, cnt, g, t) >>
          /\ clock' = << t >>
          /\ outcomes' = << o >>
          /\ snapshots' = FetchReturn(o)
          /\ console' = FetchLine(o)
    /\ UNCHANGED << pc, PRODUCT_MAPPING, mapObj, calls, resp, lst, chunk_size, i, yielded,
                    all_snapshots, funding_data, raised, average_rates, sorted_rates,
                    report, echoed >>

\* main, line 105
MainUpdate ==
    /\ pc = "update"
    /\ \E r \in MainAssetAnswers : UpdateProductMapping(r)
    /\ pc' = "ids"
    /\ UNCHANGED << lst, chunk_size, i, yielded, payloads, clock, outcomes, snapshots,
                    all_snapshots, funding_data, raised, average_rates, sorted_rates,
                    report, echoed >>

\* main, lines 108-118: the id list, the batch size, the generator created.
MainIds ==
    /\ pc = "ids"
    /\ lst' = DictKeys(PRODUCT_MAPPING)
    /\ chunk_size' = max_batch_size
    /\ i' = 0
    /\ all_snapshots' = << >>
    /\ console' = console \o << "Using product IDs:", "Max batch size allowed:" >>
    /\ pc' = "loop"
    /\ UNCHANGED << PRODUCT_MAPPING, mapObj, calls, resp, yielded, payloads, clock, outcomes,
                    snapshots, funding_data, raised, average_rates, sorted_rates, report,
                    echoed >>

LoopAdvanceAbortingOnFailure(at, size, total, o) == IF o.ok THEN at + size ELSE total

\* Where the generator stands after a batch whose request was answered o: a
\* failed request neither ends the loop nor repeats the batch.
LoopAdvance(at, size, total, o) == at + size

\* main, lines 118-124: one turn of the loop.
MainFetch ==
    /\ pc = "loop"
    /\ i < Len(lst)
    /\ LET batch == ChunkAt(lst, i, chunk_size)
       IN  \E t \in MainTimes, o \in ArchiveAnswers(batch) :
              /\ GetHistoricalFundingRates(batch, count, 3600, t, o)
              /\ yielded' = Append(yielded, batch)
              /\ console' = console \o << "Fetching snapshots for batch:" >> \o FetchLine(o)
              /\ all_snapshots' = IF FetchReturn(o) # << >>
                                  THEN all_snapshots \o FetchReturn(o)
                                  ELSE all_snapshots
              /\ i' = LoopAdvance(i, chunk_size, Len(lst), o)
    /\ UNCHANGED << pc, PRODUCT_MAPPING, mapObj, calls, resp, lst, chunk_size, funding_data,
                    raised, average_rates, sorted_rates, report, echoed >>

NoSnapshotsNever(all) == FALSE

\* Line 126
NoSnapshots(all) == all = << >>

\* main, lines 126-132, once the generator is exhausted.
MainCheck ==
    /\ pc = "loop"
    /\ i >= Len(lst)
    /\ IF NoSnapshots(all_snapshots)
       THEN /\ console' = Append(console, "No snapshots retrieved.")
            /\ pc' = "done"
       ELSE /\ console' = Append(console, "Debug: First raw snapshot:")
            /\ pc' = "process"
    /\ UNCHANGED << PRODUCT_MAPPING, mapObj, calls, resp, lst, chunk_size, i, yielded,
                    payloads, clock, outcomes, snapshots, all_snapshots, funding_data,
                    raised, average_rates, sorted_rates, report, echoed >>

\* main, line 135
MainProcess ==
    /\ pc = "process"
    /\ LET r == process_funding_rates(all_snapshots, PRODUCT_MAPPING)
       IN  /\ raised' = r.raised
           /\ funding_data' = r.data
           /\ pc' = IF r.raised = "none" THEN "report" ELSE "raised"
    /\ UNCHANGED << PRODUCT_MAPPING, mapObj, calls, resp, console, lst, chunk_size, i,
                    yielded, payloads, clock, outcomes, snapshots, all_snapshots,
                    average_rates, sorted_rates, report, echoed >>

\* main, lines 140-158
MainReport ==
    /\ pc = "report"
    /\ average_rates' = AverageRates(funding_data)
    /\ sorted_rates' = SortedDesc(average_rates')
    /\ report' = [exists |-> TRUE, lines |-> ReportLines(sorted_rates'), cut |-> FALSE]
    /\ echoed' = EchoLines(sorted_rates')
    /\ pc' = "done"
    /\ UNCHANGED << PRODUCT_MAPPING, mapObj, calls, resp, console, lst, chunk_size, i,
                    yielded, payloads, clock, outcomes, snapshots, all_snapshots,
                    funding_data, raised >>

\* main, lines 140-154 when writing the file fails: the OSError of open(), of a
\* write or of the close leaves main, and nothing is printed at lines 157-158.
MainReportFails ==
    /\ pc = "report"
    /\ average_rates' = AverageRates(funding_data)
    /\ sorted_rates' = SortedDesc(average_rates')
    /\ report' \in FailedReports(report, ReportLines(sorted_rates'))
    /\ raised' = "OSError"
    /\ pc' = "raised"
    /\ UNCHANGED << PRODUCT_MAPPING, mapObj, calls, resp, console, lst, chunk_size, i,
                    yielded, payloads, clock, outcomes, snapshots, all_snapshots,
                    funding_data, echoed >>

(***************************************************************************)
(* Specifications.                                                         *)
(***************************************************************************)
\* A run of main; vertexrates.txt may be left over from an earlier run.
Init ==
    /\ pc = "update"
    /\ Loaded
    /\ PRODUCT_MAPPING = EmptyDict
    /\ lst = << >>
    /\ chunk_size = max_batch_size
    /\ all_snapshots = << >>
    /\ report \in {NoFile, StaleFile}

Next ==
    \/ MainUpdate
    \/ MainIds
    \/ MainFetch
    \/ MainCheck
    \/ MainProcess
    \/ MainReport
    \/ MainReportFails

Spec == Init /\ [][Next]_vars

\* chunk_list alone, on every list of up to MaxLen ids and every chunk size.
InitChunk ==
    /\ pc = "chunk"
    /\ Loaded
    /\ PRODUCT_MAPPING = EmptyDict
    /\ lst \in UNION {[1..m -> 1..3] : m \in 0..MaxLen}
    /\ chunk_size \in 1..MaxChunk
    /\ all_snapshots = << >>
    /\ report = NoFile

NextChunk == YieldChunk \/ ChunkStop

SpecChunk == InitChunk /\ [][NextChunk]_vars

\* update_product_mapping alone, called up to MaxCalls times in a row.
InitMap ==
    /\ pc = "update_product_mapping"
    /\ Loaded
    /\ PRODUCT_MAPPING = EmptyDict
    /\ lst = << >>
    /\ chunk_size = max_batch_size
    /\ all_snapshots = << >>
    /\ report = NoFile

NextMap == CallUpdate

SpecMap == InitMap /\ [][NextMap]_vars

\* get_historical_funding_rates alone, on every time and granularity.
InitFetch ==
    /\ pc = "get_historical_funding_rates"
    /\ Loaded
    /\ PRODUCT_MAPPING = EmptyDict
    /\ lst = << >>
    /\ chunk_size = max_batch_size
    /\ all_snapshots = << >>
    /\ report = NoFile

NextFetch == CallFetch

SpecFetch == InitFetch /\ [][NextFetch]_vars

\* process_funding_rates as main calls it at line 135, and the rest of main,
\* on every snapshot list of up to MaxPairs pairs.  The mapping is one main
\* can have loaded, or the empty one the module starts with.
InitProc ==
    /\ pc = "process"
    /\ Loaded
    /\ PRODUCT_MAPPING \in ProcMappings
    /\ lst = DictKeys(PRODUCT_MAPPING)
    /\ chunk_size = max_batch_size
    /\ all_snapshots \in ProcSnapshots
    /\ report = NoFile

NextProc == MainProcess \/ MainReport \/ MainReportFails

SpecProc == InitProc /\ [][NextProc]_vars

(***************************************************************************)
(* Properties.                                                             *)
(***************************************************************************)
\* C1 (SpecChunk): the chunks yielded by chunk_list are consecutive and
\* non-overlapping (chunk k holds the elements at positions (k-1)*size+1 ...
\* of the list, in order), every chunk but the last has exactly chunk_size
\* elements and the last has between 1 and chunk_size; once the generator is
\* exhausted the chunks concatenated are the list, and the empty list yields
\* no chunk.
ChunksPartitionTheList ==
    /\ \A k \in 1..Len(yielded) :
          /\ Len(yielded[k]) \in 1..chunk_size
          /\ k < Len(yielded) => Len(yielded[k]) = chunk_size
          /\ \A j \in 1..Len(yielded[k]) :
                /\ (k - 1) * chunk_size + j <= Len(lst)
                /\ yielded[k][j] = lst[(k - 1) * chunk_size + j]
    /\ pc = "exhausted" =>
          /\ Concat(yielded) = lst
          /\ lst = << >> => yielded = << >>
          /\ Len(yielded) * chunk_size >= Len(lst)
          /\ Len(yielded) * chunk_size < Len(lst) + chunk_size

\* C1 witness: a list of four ids chunked by three: a full chunk and a short one.
ChunkedWithShortLastChunk ==
    /\ pc = "exhausted"
    /\ Len(lst) = 4
    /\ chunk_size = 3
    /\ yielded = << SubSeq(lst, 1, 3), SubSeq(lst, 4, 4) >>

\* C2 (SpecMap): a successful update_product_mapping call whose response has
\* the id set of the current PRODUCT_MAPPING leaves the global unchanged (same
\* object, same tickers, whatever tickers the response carries); a response
\* with another id set replaces the global by a new dict holding exactly the
\* mapping built from the response.
UpdateReplacesOnlyOnNewIdSet ==
    [][ (calls' = calls + 1 /\ resp'.ok) =>
          LET ids == {resp'.items[j].product_id : j \in 1..Len(resp'.items)}
          IN  IF ids = KeySet(PRODUCT_MAPPING)
              THEN /\ PRODUCT_MAPPING' = PRODUCT_MAPPING
                   /\ mapObj' = mapObj
                   /\ console' = Append(console, "No new product mapping found.")
              ELSE /\ mapObj' = calls'
                   /\ KeySet(PRODUCT_MAPPING') = ids
                   /\ Len(PRODUCT_MAPPING') = Cardinality(ids)
                   /\ \A j \in 1..Len(resp'.items) :
                         (\A h \in (j + 1)..Len(resp'.items) :
                             resp'.items[h].product_id # resp'.items[j].product_id)
                         => DictGet(PRODUCT_MAPPING', resp'.items[j].product_id, "")
                               = resp'.items[j].ticker_id
                   /\ console' = Append(console, "Product mapping updated.")
      ]_vars

\* C2 witness: the second call answered with the ids of the mapping but other
\* tickers, and the mapping of the first call still in place.
UpdateSuppressedDespiteNewTickers ==
    /\ calls = 2
    /\ resp.ok
    /\ mapObj = 1
    /\ {resp.items[j].product_id : j \in 1..Len(resp.items)} = KeySet(PRODUCT_MAPPING)
    /\ \E j \in 1..Len(resp.items) :
          DictGet(PRODUCT_MAPPING, resp.items[j].product_id, "") # resp.items[j].ticker_id
    /\ Len(resp.items) = 1

\* C3 (SpecMap): when the assets request fails, update_product_mapping logs
\* the error and returns normally, and PRODUCT_MAPPING is the very dict it was
\* before the call (the empty one on a first run).
FailedUpdateLeavesMapping ==
    [][ (calls' = calls + 1 /\ ~resp'.ok) =>
          /\ PRODUCT_MAPPING' = PRODUCT_MAPPING
          /\ mapObj' = mapObj
          /\ raised' = "none"
          /\ pc' = pc
          /\ console' = Append(console, "Error fetching product symbols:")
      ]_vars

\* C3 witness: a failed call after a call that installed a mapping.
FailedUpdateAfterMapping ==
    /\ calls = 2
    /\ ~resp.ok
    /\ mapObj = 1
    /\ PRODUCT_MAPPING # EmptyDict
    /\ console[2] = "Error fetching product symbols:"

\* C4 (Spec): in main every batch of the planner is requested exactly once and
\* in planner order whether or not earlier requests failed (request k carries
\* the k-th slice of max_batch_size ids), a failed request contributes nothing,
\* and all_snapshots is the concatenation, in batch order, of what the
\* successful requests returned; when the loop has ended there was one request
\* per batch.
EveryBatchRequestedOnce ==
    /\ Len(payloads) = Len(outcomes)
    /\ \A k \in 1..Len(payloads) :
          /\ (k - 1) * (2000 \div 72) < Len(lst)
          /\ payloads[k].product_ids
                = SubSeq(lst, (k - 1) * (2000 \div 72) + 1, Min(k * (2000 \div 72), Len(lst)))
    /\ all_snapshots
          = Concat([k \in 1..Len(outcomes) |->
                       IF outcomes[k].ok /\ outcomes[k].has THEN outcomes[k].snapshots ELSE << >>])
    /\ pc \notin {"update", "ids", "loop"} => Len(payloads) * (2000 \div 72) >= Len(lst)

\* C4 witness: three batches, the first request failed, the two later ones were
\* still made and their snapshots are what main goes on with.
LaterBatchesFetchedAfterFailure ==
    /\ pc = "process"
    /\ Len(outcomes) = 3
    /\ ~outcomes[1].ok
    /\ outcomes[2].ok /\ Len(outcomes[2].snapshots) = 2
    /\ outcomes[3].ok /\ Len(outcomes[3].snapshots) = 1
    /\ all_snapshots = outcomes[2].snapshots \o outcomes[3].snapshots

\* C5 as stated (SpecFetch): the max_time of every request is the time of the
\* request rounded down to a multiple of the granularity argument, plus 5.
MaxTimeRoundsToGranularity ==
    \A k \in 1..Len(payloads) :
        payloads[k].max_time = clock[k] - (clock[k] % payloads[k].granularity) + 5

\* C5 as amended (SpecFetch): the max_time of every request is the time of the
\* request rounded down to a multiple of 3600 seconds, plus 5, whatever the
\* granularity argument is.
MaxTimeRoundsToHour ==
    \A k \in 1..Len(payloads) : payloads[k].max_time = clock[k] - (clock[k] % 3600) + 5

\* C5 witness: a request of granularity 60 at time 3661 carries max_time 3605.
MinuteGranularityRoundedToHour ==
    /\ Len(payloads) = 1
    /\ clock[1] = 3661
    /\ payloads[1].granularity = 60
    /\ payloads[1].max_time = 3605

\* C6 as stated (SpecProc): process_funding_rates raises no error whatever the
\* snapshots hold, and an entry whose raw rate does not parse as a number has
\* funding_rate 0.
ProcessingNeverRaises ==
    /\ raised \notin {"TypeError", "ValueError", "OverflowError"}
    /\ pc \in {"report", "done"} =>
          \A j \in 1..Len(funding_data) : \A h \in 1..Len(funding_data[j].v) :
              LET mine == SelectSeq(Pairs(all_snapshots),
                                    LAMBDA p : TickerOf(PRODUCT_MAPPING, p.key) = funding_data[j].k)
              IN  (mine[h].rate.type = "string" /\ ~FloatParses(mine[h].rate.chars))
                  => funding_data[j].v[h].funding_rate = Zero

\* C7 as stated (SpecProc): once process_funding_rates has been called, on
\* whatever snapshots and mapping, every (key, rate) pair of every snapshot
\* has exactly one entry: the entries of a ticker are, in order, those of the
\* pairs whose key parses to an id mapped to that ticker, or whose id is not
\* mapped and whose label Unknown(<id>) is that ticker; so there are as many
\* entries as pairs.
EveryPairFiledOnce ==
    LET pairs == Pairs(all_snapshots)
        id(key) == IF IntParses(key) THEN IntOf(key) ELSE PyStr(key)
        label(key) ==
            IF id(key) \in KeySet(PRODUCT_MAPPING)
            THEN PRODUCT_MAPPING[CHOOSE j \in 1..Len(PRODUCT_MAPPING) :
                                     PRODUCT_MAPPING[j].k = id(key)].v
            ELSE IF IntParses(key) THEN "Unknown(" \o Str(IntChars(IntOf(key))) \o ")"
            ELSE "Unknown(" \o Str(key) \o ")"
    IN  pc # "process" =>
            /\ KeySet(funding_data) = {label(pairs[j].key) : j \in 1..Len(pairs)}
            /\ Cardinality(KeySet(funding_data)) = Len(funding_data)
            /\ \A j \in 1..Len(funding_data) :
                  LET mine == SelectSeq(pairs, LAMBDA p : label(p.key) = funding_data[j].k)
                  IN  /\ Len(funding_data[j].v) = Len(mine)
                      /\ \A h \in 1..Len(mine) :
                            funding_data[j].v[h].timestamp = mine[h].timestamp
            /\ Len(Concat([j \in 1..Len(funding_data) |-> funding_data[j].v])) = Len(pairs)

\* C8 (SpecProc): the average of every ticker is the sum of the funding_rate of
\* all of its entries divided by 3, however many entries it has.  The sum and
\* the quotient are those of double arithmetic: the average is the sum itself
\* when that is a zero, an infinity or a NaN, and otherwise a double of the
\* sign of the sum, at most half a unit in its last place away from a third of
\* the sum.  The 72 entries of the end-to-end scenario, 7.2 (the double
\* 7.199999999999999), give 518.4 / 3 = 172.8 (the doubles 518.3999999999994
\* and 172.7999999999998), and the report line "BTC-PERP<TAB>172.800000".
AverageIsSumOverThree ==
    LET Third(avg, sum) ==
            IF sum.cls # "finite" \/ sum.m = << >> THEN avg = sum
            ELSE LET ulp == Max(NatBitLength(avg.m) + avg.e - 53, -1074)
                     low == Min(ulp - 1, Min(avg.e, sum.e))
                     a3  == NatShl(NatMulAdd(avg.m, 3, 0), avg.e - low)
                     s   == NatShl(sum.m, sum.e - low)
                     gap == IF NatLess(a3, s) THEN NatSub(s, a3) ELSE NatSub(a3, s)
                 IN  /\ avg.cls = "finite"
                     /\ avg.neg = sum.neg
                     /\ ~NatLess(NatShl(<< 3 >>, ulp - 1 - low), gap)
    IN  /\ (pc = "done" \/ raised = "OSError") =>
              /\ Len(average_rates) = Len(funding_data)
              /\ \A j \in 1..Len(funding_data) :
                    /\ average_rates[j].k = funding_data[j].k
                    /\ Third(average_rates[j].v, Sum(Rates(funding_data[j].v)))
        /\ (pc = "done" /\ all_snapshots = EndToEnd
                /\ PRODUCT_MAPPING = << [k |-> PyInt(1), v |-> "BTC-PERP"] >>) =>
              /\ average_rates
                    = << [k |-> "BTC-PERP",
                          v |-> [cls |-> "finite", neg |-> FALSE,
                                 m |-> << 6547, 13107, 26214, 172 >>, e |-> -45]] >>
              /\ report.lines[3] = "BTC-PERP\t172.800000\n"

\* C8 witness: the end-to-end scenario has run: 72 entries of 7.2 (the double
\* 7.199999999999999 = 8106479329266892 / 2^50), average 172.8 to the six
\* decimals of the report.
EndToEndAveraged ==
    /\ pc = "done"
    /\ all_snapshots = EndToEnd
    /\ Len(funding_data) = 1
    /\ Len(funding_data[1].v) = 72
    /\ \A h \in 1..72 :
          funding_data[1].v[h].funding_rate
             = [cls |-> "finite", neg |-> FALSE, m |-> << 13107, 26214, 19660, 57 >>, e |-> -48]
    /\ Fmt6(average_rates[1].v) = "172.800000"

\* C9 as stated (SpecProc): the ranked list is a permutation of the (ticker,
\* average) items, no ticker comes before one with a strictly larger average,
\* tickers with equal averages keep the order of their first appearance in the
\* processed data, and the report rows and the echoed lines follow that list.
RankedDescendingAndStable ==
    pc = "done" =>
        LET pos(t) == CHOOSE j \in 1..Len(funding_data) : funding_data[j].k = t
            equal(x, y) == x.cls # "nan" /\ y.cls # "nan" /\ ~Less(x, y) /\ ~Less(y, x)
        IN  /\ Len(sorted_rates) = Len(funding_data)
            /\ \A j \in 1..Len(funding_data) :
                  \E h \in 1..Len(sorted_rates) :
                      /\ sorted_rates[h].k = funding_data[j].k
                      /\ sorted_rates[h] = average_rates[j]
            /\ \A a, b \in 1..Len(sorted_rates) :
                  a < b =>
                      /\ ~Less(sorted_rates[a].v, sorted_rates[b].v)
                      /\ equal(sorted_rates[a].v, sorted_rates[b].v)
                            => pos(sorted_rates[a].k) < pos(sorted_rates[b].k)
            /\ Len(report.lines) = 2 + Len(sorted_rates)
            /\ Len(echoed) = Len(sorted_rates)
            /\ \A a \in 1..Len(sorted_rates) :
                  /\ report.lines[a + 2]
                        = sorted_rates[a].k \o "\t" \o Fmt6(sorted_rates[a].v) \o "\n"
                  /\ echoed[a] = sorted_rates[a].k \o ": " \o Fmt6(sorted_rates[a].v) \o "%"

\* C10 (Spec): vertexrates.txt is written only if some batch returned at least
\* one snapshot; when no batch did (requests failed, answers were empty, or no
\* batch was requested), main prints "No snapshots retrieved." and ends with
\* the file untouched and process_funding_rates not run.
ReportOnlyWithSnapshots ==
    LET some == \E k \in 1..Len(outcomes) :
                    outcomes[k].ok /\ outcomes[k].has /\ outcomes[k].snapshots # << >>
    IN  /\ report \notin {NoFile, StaleFile} => some
        /\ (pc \notin {"update", "ids", "loop"} /\ ~some) =>
              /\ pc = "done"
              /\ console[Len(console)] = "No snapshots retrieved."
              /\ report \in {NoFile, StaleFile}
              /\ funding_data = EmptyDict
              /\ average_rates = EmptyDict
              /\ echoed = << >>
              /\ raised = "none"
        /\ (pc \in {"process", "report", "raised"} \/ funding_data # EmptyDict) => some

\* C10 witness: two batches, one request failed and one answered without
\* snapshots; main has ended and the file of an earlier run is as it was.
EndedWithoutSnapshots ==
    /\ pc = "done"
    /\ Len(outcomes) = 2
    /\ ~outcomes[1].ok
    /\ outcomes[2].ok /\ outcomes[2].snapshots = << >>
    /\ report = StaleFile
    /\ console[Len(console)] = "No snapshots retrieved."

====

